---- MODULE Spec2Model ----
(***************************************************************************)
(* ACI 318 reinforced-concrete beam strength calculator                    *)
(* (src/src/utils/beamCalculations.ts and its callers).                    *)
(*                                                                         *)
(* Numbers.  A JavaScript number is modelled as a record [n, d]:           *)
(*   d > 0           the rational n/d in lowest terms,                     *)
(*   d = 0, n = 1    +Infinity,   d = 0, n = -1   -Infinity,               *)
(*   d = 0, n = 0    NaN.                                                  *)
(* Arithmetic on finite values is exact (the rounding of IEEE-754 doubles  *)
(* is not represented); division by zero, Infinity and NaN follow          *)
(* IEEE-754.  Every input of the model is >= 0, so the sign of a zero      *)
(* never decides a result.  Numerators and denominators are 32-bit         *)
(* integers; a value beyond them is OutOfRange, and the calls whose result *)
(* would hold one are left out of the model.                               *)
(***************************************************************************)
EXTENDS Integers, Sequences, FiniteSets, TLC

VARIABLES fn, args, rets, barSizes, inputs, results

vars == <<fn, args, rets, barSizes, inputs, results>>

----------------------------------------------------------------------------
(* JavaScript numbers *)

Abs(i) == IF i < 0 THEN -i ELSE i

Sgn(i) == IF i > 0 THEN 1 ELSE IF i < 0 THEN -1 ELSE 0

RECURSIVE GCD(_, _)
GCD(i, j) == IF j = 0 THEN i ELSE GCD(j, i % j)

NaN == [n |-> 0, d |-> 0]

PosInf == [n |-> 1, d |-> 0]

NegInf == [n |-> -1, d |-> 0]

\* A finite value whose numerator or denominator is beyond the integers of the
\* model checker (32 bits).  It is absorbing, and no call whose result holds
\* it is part of the model (see Sections).
OutOfRange == [n |-> 0, d |-> -1]

IsOutOfRange(x) == x.d < 0

\* i * j and i + j stay within 32 bits.
MulFits(i, j) == i = 0 \/ j = 0 \/ Abs(i) <= 2147483647 \div Abs(j)

AddFits(i, j) == Abs(i) <= 2147483647 - Abs(j)

\* The number i/j, for integers i and j: j = 0 gives +-Infinity or NaN.
Rat(i, j) ==
  IF j = 0 THEN [n |-> Sgn(i), d |-> 0]
  ELSE LET g == GCD(Abs(i), Abs(j))
       IN  [n |-> Sgn(j) * (i \div g), d |-> Abs(j) \div g]

Int2Num(i) == [n |-> i, d |-> 1]

IsNaN(x) == x.d = 0 /\ x.n = 0

IsFinite(x) == x.d > 0

\* x * y
Mul(x, y) ==
  IF IsOutOfRange(x) \/ IsOutOfRange(y) THEN OutOfRange
  ELSE IF x.d = 0 \/ y.d = 0 THEN [n |-> Sgn(x.n) * Sgn(y.n), d |-> 0]
  ELSE IF x.n = 0 \/ y.n = 0 THEN [n |-> 0, d |-> 1]
  ELSE LET g1 == GCD(Abs(x.n), y.d)
           g2 == GCD(Abs(y.n), x.d)
       IN  IF MulFits(x.n \div g1, y.n \div g2) /\ MulFits(x.d \div g2, y.d \div g1)
           THEN [n |-> (x.n \div g1) * (y.n \div g2),
                 d |-> (x.d \div g2) * (y.d \div g1)]
           ELSE OutOfRange

\* x / y
Div(x, y) ==
  IF IsOutOfRange(x) \/ IsOutOfRange(y) THEN OutOfRange
  ELSE IF IsNaN(x) \/ IsNaN(y) THEN NaN
  ELSE IF y.d = 0 THEN (IF x.d = 0 THEN NaN ELSE [n |-> 0, d |-> 1])
  ELSE IF y.n = 0 THEN [n |-> Sgn(x.n), d |-> 0]
  ELSE IF x.d = 0 THEN [n |-> Sgn(x.n) * Sgn(y.n), d |-> 0]
  ELSE Mul(x, [n |-> Sgn(y.n) * y.d, d |-> Abs(y.n)])

\* x + y
Add(x, y) ==
  IF IsOutOfRange(x) \/ IsOutOfRange(y) THEN OutOfRange
  ELSE IF IsNaN(x) \/ IsNaN(y) THEN NaN
  ELSE IF x.d = 0 /\ y.d = 0 THEN (IF x.n = y.n THEN x ELSE NaN)
  ELSE IF x.d = 0 THEN x
  ELSE IF y.d = 0 THEN y
  ELSE LET g == GCD(x.d, y.d)
       IN  IF /\ MulFits(x.n, y.d \div g)
              /\ MulFits(y.n, x.d \div g)
              /\ MulFits(x.d \div g, y.d)
              /\ AddFits(x.n * (y.d \div g), y.n * (x.d \div g))
           THEN Rat(x.n * (y.d \div g) + y.n * (x.d \div g), (x.d \div g) * y.d)
           ELSE OutOfRange

Neg(x) == [n |-> -x.n, d |-> x.d]

\* x - y
Sub(x, y) == Add(x, Neg(y))

\* -1, 0 or 1 as i/j is below, equal to or above k/l, for j, l > 0: by the
\* integer parts, then by the reciprocals of the fractional parts.
RECURSIVE CmpFrac(_, _, _, _)
CmpFrac(i, j, k, l) ==
  IF i \div j # k \div l THEN Sgn((i \div j) - (k \div l))
  ELSE IF i % j = 0 \/ k % l = 0 THEN Sgn((i % j) - (k % l))
  ELSE CmpFrac(l, k % l, j, i % j)

\* -1, 0 or 1 as x is below, equal to or above y; neither is NaN.
Cmp(x, y) ==
  IF x.d = 0 \/ y.d = 0
  THEN Sgn((IF x.d = 0 THEN x.n ELSE 0) - (IF y.d = 0 THEN y.n ELSE 0))
  ELSE CmpFrac(x.n, x.d, y.n, y.d)

Comparable(x, y) == ~IsNaN(x) /\ ~IsNaN(y) /\ ~IsOutOfRange(x) /\ ~IsOutOfRange(y)

\* x <= y, x < y, x >= y, x > y: false when either is NaN.
Le(x, y) == Comparable(x, y) /\ Cmp(x, y) <= 0

Lt(x, y) == Comparable(x, y) /\ Cmp(x, y) < 0

Ge(x, y) == Le(y, x)

Gt(x, y) == Lt(y, x)

\* Math.max(x, y)
MathMax(x, y) ==
  IF IsOutOfRange(x) \/ IsOutOfRange(y) THEN OutOfRange
  ELSE IF IsNaN(x) \/ IsNaN(y) THEN NaN
  ELSE IF Cmp(x, y) >= 0 THEN x ELSE y

RECURSIVE ISqrtBetween(_, _, _)
ISqrtBetween(m, lo, hi) ==
  IF lo = hi THEN lo
  ELSE LET mid == (lo + hi + 1) \div 2
       IN  IF mid * mid <= m THEN ISqrtBetween(m, mid, hi)
           ELSE ISqrtBetween(m, lo, mid - 1)

\* The largest r with r * r <= m, for 0 <= m < 2^31.
ISqrt(m) == ISqrtBetween(m, 0, 46340)

\* Math.sqrt(x): exact on the square of a rational; any other value is
\* rounded down to a multiple of 1/100 (Math.sqrt rounds to a double).
MathSqrt(x) ==
  IF IsOutOfRange(x) THEN OutOfRange
  ELSE IF IsNaN(x) \/ x.n < 0 THEN NaN
  ELSE IF x.d = 0 THEN PosInf
  ELSE LET rn == ISqrt(x.n)
           rd == ISqrt(x.d)
       IN  IF rn * rn = x.n /\ rd * rd = x.d THEN Rat(rn, rd)
           ELSE IF MulFits(x.n, 10000) THEN Rat(ISqrt((x.n * 10000) \div x.d), 100)
           ELSE OutOfRange

----------------------------------------------------------------------------
(* beamCalculations.ts *)

BETA1_FC_4000 == Rat(85, 100)

BETA1_FC_8000 == Rat(65, 100)

\* Maximum concrete strain
EPSILON_C_MAX == Rat(3, 1000)

\* Minimum steel strain for tension-controlled
EPSILON_Y_MIN == Rat(5, 1000)

\* calculateBeta1 interpolating over 8000 psi instead of 4000.
calculateBeta1_span8000(fc) ==
  IF Le(fc, Int2Num(4000)) THEN BETA1_FC_4000
  ELSE IF Ge(fc, Int2Num(8000)) THEN BETA1_FC_8000
  ELSE Sub(BETA1_FC_4000,
           Mul(Div(Sub(fc, Int2Num(4000)), Int2Num(8000)),
               Sub(BETA1_FC_4000, BETA1_FC_8000)))

\* beta1 from the concrete strength (ACI 318-14: 22.2.2.4.3)
calculateBeta1(fc) ==
  IF Le(fc, Int2Num(4000)) THEN BETA1_FC_4000
  ELSE IF Ge(fc, Int2Num(8000)) THEN BETA1_FC_8000
  ELSE Sub(BETA1_FC_4000,
           Mul(Div(Sub(fc, Int2Num(4000)), Int2Num(4000)),
               Sub(BETA1_FC_4000, BETA1_FC_8000)))

\* Minimum reinforcement ratio (ACI 318-14: 9.6.1.2)
calculateRhoMin(fc, fy) ==
  LET rhoMin1 == Div(Mul(Int2Num(3), MathSqrt(fc)), fy)
      rhoMin2 == Div(Int2Num(200), fy)
  IN  MathMax(rhoMin1, rhoMin2)

\* Balanced reinforcement ratio
calculateRhoBalanced(fc, fy) ==
  LET beta1 == calculateBeta1(fc)
      epsilonY == Div(fy, Int2Num(29000000))
  IN  Mul(Div(Mul(Mul(Rat(85, 100), fc), beta1), fy),
          Div(EPSILON_C_MAX, Add(EPSILON_C_MAX, epsilonY)))

\* calculateRhoMax without the factor 0.75.
calculateRhoMax_balanced(fc, fy) == calculateRhoBalanced(fc, fy)

\* calculateRhoMax at 85% of balanced.
calculateRhoMax_85(fc, fy) == Mul(Rat(85, 100), calculateRhoBalanced(fc, fy))

\* calculateRhoMax with a margin of 50% in place of 75%.
calculateRhoMax_half(fc, fy) == Mul(Rat(50, 100), calculateRhoBalanced(fc, fy))

\* Maximum reinforcement ratio (75% of balanced for ductility)
calculateRhoMax(fc, fy) == Mul(Rat(75, 100), calculateRhoBalanced(fc, fy))

\* calculatePhi with the tension-controlled limit at 0.004.
calculatePhi_limitAt004(epsilonT) ==
  IF Ge(epsilonT, Rat(4, 1000)) THEN Rat(9, 10)
  ELSE IF Le(epsilonT, Rat(2, 1000)) THEN Rat(65, 100)
  ELSE Add(Rat(65, 100),
           Mul(Div(Sub(epsilonT, Rat(2, 1000)), Sub(EPSILON_Y_MIN, Rat(2, 1000))),
               Sub(Rat(9, 10), Rat(65, 100))))

\* calculatePhi interpolating downwards from 0.90 in the transition zone.
calculatePhi_fallingTransition(epsilonT) ==
  IF Ge(epsilonT, EPSILON_Y_MIN) THEN Rat(9, 10)
  ELSE IF Le(epsilonT, Rat(2, 1000)) THEN Rat(65, 100)
  ELSE Sub(Rat(9, 10),
           Mul(Div(Sub(epsilonT, Rat(2, 1000)), Sub(EPSILON_Y_MIN, Rat(2, 1000))),
               Sub(Rat(9, 10), Rat(65, 100))))

\* Strength reduction factor phi from the strain (ACI 318-14: 21.2.2)
calculatePhi(epsilonT) ==
  IF Ge(epsilonT, EPSILON_Y_MIN) THEN Rat(9, 10)
  ELSE IF Le(epsilonT, Rat(2, 1000)) THEN Rat(65, 100)
  ELSE Add(Rat(65, 100),
           Mul(Div(Sub(epsilonT, Rat(2, 1000)), Sub(EPSILON_Y_MIN, Rat(2, 1000))),
               Sub(Rat(9, 10), Rat(65, 100))))

\* rho = As / (b * d)
reinforcementRatio(As, b, d) == Div(As, Mul(b, d))

\* stressBlockDepth without the factor 0.85 of the stress block.
stressBlockDepth_noFactor(As, fy, fc, b) == Div(Mul(As, fy), Mul(fc, b))

\* a = (As * fy) / (0.85 * fc * b): T = C => As * fy = 0.85 * fc * a * b
stressBlockDepth(As, fy, fc, b) == Div(Mul(As, fy), Mul(Mul(Rat(85, 100), fc), b))

\* c = a / beta1
neutralAxisDepth(a, beta1) == Div(a, beta1)

\* tensileStrain with the two depths exchanged: epsilonC * (c - d) / c.
tensileStrain_swapped(epsilonC, d, c) == Div(Mul(epsilonC, Sub(c, d)), c)

\* epsilonT = epsilonC * (d - c) / c, by similar triangles
tensileStrain(epsilonC, d, c) == Div(Mul(epsilonC, Sub(d, c)), c)

\* Mn = As * fy * (d - a / 2) / 12
nominalMoment(As, fy, d, a) ==
  LET MnInchKips == Mul(Mul(As, fy), Sub(d, Div(a, Int2Num(2))))
  IN  Div(MnInchKips, Int2Num(12))

\* isUnderReinforced = rho <= rhoMax
checkUnderReinforced(rho, rhoMax) == Le(rho, rhoMax)

\* meetsMinSteel = rho >= rhoMin
checkMinSteel(rho, rhoMin) == Ge(rho, rhoMin)

\* checkValid with the depth test d < h left out.
checkValid_noDepthTest(isUnderReinforced, meetsMinSteel, d, h, As) ==
  isUnderReinforced /\ meetsMinSteel /\ Gt(As, Int2Num(0))

\* isValid = isUnderReinforced && meetsMinSteel && d < h && As > 0
checkValid(isUnderReinforced, meetsMinSteel, d, h, As) ==
  isUnderReinforced /\ meetsMinSteel /\ Lt(d, h) /\ Gt(As, Int2Num(0))

\* calculateBeamStrength taking As for the area of one bar: As * numBars is used.
calculateBeamStrength_perBarArea(input) ==
  LET b == input.b
      h == input.h
      d == input.d
      fc == input.fc
      fy == input.fy
      As == Mul(input.As, input.numBars)
      rho == reinforcementRatio(As, b, d)
      rhoMin == calculateRhoMin(fc, fy)
      rhoBalanced == calculateRhoBalanced(fc, fy)
      rhoMax == calculateRhoMax(fc, fy)
      a == stressBlockDepth(As, fy, fc, b)
      beta1 == calculateBeta1(fc)
      c == neutralAxisDepth(a, beta1)
      epsilonC == EPSILON_C_MAX
      epsilonT == tensileStrain(epsilonC, d, c)
      phi == calculatePhi(epsilonT)
      Mn == nominalMoment(As, fy, d, a)
      phiMn == Mul(phi, Mn)
      isUnderReinforced == checkUnderReinforced(rho, rhoMax)
      meetsMinSteel == checkMinSteel(rho, rhoMin)
      isValid == checkValid(isUnderReinforced, meetsMinSteel, d, h, As)
  IN  [rho |-> rho, rhoMin |-> rhoMin, rhoMax |-> rhoMax, rhoBalanced |-> rhoBalanced,
       a |-> a, c |-> c, Mn |-> Mn, phiMn |-> phiMn, phi |-> phi,
       isUnderReinforced |-> isUnderReinforced, meetsMinSteel |-> meetsMinSteel,
       isValid |-> isValid, epsilonT |-> epsilonT, epsilonC |-> epsilonC]

\* Main calculation: input is a BeamInput record, the value a BeamResults.
calculateBeamStrength(input) ==
  LET b == input.b
      h == input.h
      d == input.d
      fc == input.fc
      fy == input.fy
      As == input.As
      rho == reinforcementRatio(As, b, d)
      rhoMin == calculateRhoMin(fc, fy)
      rhoBalanced == calculateRhoBalanced(fc, fy)
      rhoMax == calculateRhoMax(fc, fy)
      a == stressBlockDepth(As, fy, fc, b)
      beta1 == calculateBeta1(fc)
      c == neutralAxisDepth(a, beta1)
      epsilonC == EPSILON_C_MAX
      epsilonT == tensileStrain(epsilonC, d, c)
      phi == calculatePhi(epsilonT)
      Mn == nominalMoment(As, fy, d, a)
      phiMn == Mul(phi, Mn)
      isUnderReinforced == checkUnderReinforced(rho, rhoMax)
      meetsMinSteel == checkMinSteel(rho, rhoMin)
      isValid == checkValid(isUnderReinforced, meetsMinSteel, d, h, As)
  IN  [rho |-> rho, rhoMin |-> rhoMin, rhoMax |-> rhoMax, rhoBalanced |-> rhoBalanced,
       a |-> a, c |-> c, Mn |-> Mn, phiMn |-> phiMn, phi |-> phi,
       isUnderReinforced |-> isUnderReinforced, meetsMinSteel |-> meetsMinSteel,
       isValid |-> isValid, epsilonT |-> epsilonT, epsilonC |-> epsilonC]

\* The table of getBarArea: bar size -> area in hundredths of a square inch.
barAreas ==
  (3 :> 11) @@ (4 :> 20) @@ (5 :> 31) @@ (6 :> 44) @@ (7 :> 60) @@ (8 :> 79) @@
  (9 :> 100) @@ (10 :> 127) @@ (11 :> 156) @@ (14 :> 225) @@ (18 :> 400)

\* getBarArea without the "|| 0": a missing key gives no area (NaN in a product).
getBarArea_noDefault(barSize) ==
  IF barSize \in DOMAIN barAreas THEN Rat(barAreas[barSize], 100) ELSE NaN

\* barAreas[barSize] || 0: a missing key reads undefined, which is falsy.
getBarArea(barSize) ==
  IF barSize \in DOMAIN barAreas /\ barAreas[barSize] # 0
  THEN Rat(barAreas[barSize], 100)
  ELSE Int2Num(0)

getAvailableBarSizes == <<3, 4, 5, 6, 7, 8, 9, 10, 11, 14, 18>>

----------------------------------------------------------------------------
(* The form (InputForm) and its owner (App).  A text is the value of an     *)
(* input element, a sequence of characters.                                *)

DigitValue ==
  ("0" :> 0) @@ ("1" :> 1) @@ ("2" :> 2) @@ ("3" :> 3) @@ ("4" :> 4) @@
  ("5" :> 5) @@ ("6" :> 6) @@ ("7" :> 7) @@ ("8" :> 8) @@ ("9" :> 9)

\* The number of digits of text from position i on.
RECURSIVE DigitsFrom(_, _)
DigitsFrom(text, i) ==
  IF i <= Len(text) /\ text[i] \in DOMAIN DigitValue
  THEN 1 + DigitsFrom(text, i + 1)
  ELSE 0

\* The value of the n digits of text that end at position i.
RECURSIVE DecimalValue(_, _, _)
DecimalValue(text, i, n) ==
  IF n = 0 THEN 0
  ELSE 10 * DecimalValue(text, i - 1, n - 1) + DigitValue[text[i]]

RECURSIVE Pow10(_)
Pow10(n) == IF n = 0 THEN 1 ELSE 10 * Pow10(n - 1)

\* The position of the first character after an optional sign.
AfterSign(text) == IF Len(text) > 0 /\ text[1] \in {"-", "+"} THEN 2 ELSE 1

SignOf(text) == IF Len(text) > 0 /\ text[1] = "-" THEN -1 ELSE 1

\* parseFloat: the longest prefix sign, digits, ".", digits; NaN without a digit.
\* (Exponents and "Infinity" are not texts of the model.)
parseFloat(text) ==
  LET start == AfterSign(text)
      ni == DigitsFrom(text, start)
      hasDot == start + ni <= Len(text) /\ text[start + ni] = "."
      nf == IF hasDot THEN DigitsFrom(text, start + ni + 1) ELSE 0
      whole == DecimalValue(text, start + ni - 1, ni)
      frac == DecimalValue(text, start + ni + nf, nf)
  IN  IF ni = 0 /\ nf = 0 THEN NaN
      ELSE Rat(SignOf(text) * (whole * Pow10(nf) + frac), Pow10(nf))

\* parseInt: the longest prefix sign, digits; NaN without a digit.
parseInt(text) ==
  LET start == AfterSign(text)
      ni == DigitsFrom(text, start)
  IN  IF ni = 0 THEN NaN
      ELSE Int2Num(SignOf(text) * DecimalValue(text, start + ni - 1, ni))

\* x || other: other when x is falsy, which for a number is 0 or NaN.
OrElse(x, other) == IF IsNaN(x) \/ x = Int2Num(0) THEN other ELSE x

\* The key a number gives in a property access: a number that is no integer
\* gives a key that barAreas does not hold.
PropertyKey(x) == IF x.d = 1 THEN x.n ELSE 0

\* useState: the inputs of a newly mounted App.
initialInputs ==
  [b |-> Int2Num(12), h |-> Int2Num(24), d |-> Rat(215, 10), fc |-> Int2Num(4000),
   fy |-> Int2Num(60000), barSize |-> Int2Num(8), numBars |-> Int2Num(4)]

\* The argument of the call of calculateBeamStrength: { ...inputs, As }.
engineInput(values) ==
  LET As == Mul(getBarArea(PropertyKey(values.barSize)), values.numBars)
  IN  [b |-> values.b, h |-> values.h, d |-> values.d, fc |-> values.fc,
       fy |-> values.fy, barSize |-> values.barSize, numBars |-> values.numBars,
       As |-> As]

\* useMemo with no dependencies: the results of the inputs at mount, kept.
useMemoResults_mountOnly(values) == calculateBeamStrength(engineInput(initialInputs))

\* useMemo: the results of the inputs values.
useMemoResults(values) == calculateBeamStrength(engineInput(values))

\* handleChange: onChange({ ...values, [field]: value }).
handleChange(values, field, value) == [values EXCEPT ![field] = value]

----------------------------------------------------------------------------
(* Calls of calculateBeamStrength.  fn names the function under call, args  *)
(* holds the inputs of the calls to make, rets the values returned so far. *)
(* No App is mounted during these calls: inputs and results are empty.     *)

\* The largest bar count entered.
MaxBars == 4

BeamInput(b, h, d, fc, fy, As, numBars) ==
  [b |-> b, h |-> h, d |-> d, fc |-> fc, fy |-> fy, As |-> As, numBars |-> numBars]

WidthValues == {Int2Num(0), Int2Num(12)}

HeightValues == {Int2Num(20), Int2Num(24)}

DepthValues == {Int2Num(0), Rat(43, 2)}

FcValues == {Int2Num(0), Int2Num(3000), Int2Num(4000), Int2Num(5000),
             Int2Num(6400), Int2Num(10000)}

FyValues == {Int2Num(0), Int2Num(20000), Int2Num(22000), Int2Num(60000),
             Int2Num(87000), Int2Num(90000)}

\* Steel areas that no bar size and count up to MaxBars give.
OtherAsValues == {Int2Num(0), Rat(10, 100), Rat(31, 10), Rat(324, 100), Int2Num(20),
                  Rat(225, 10)}

\* No number of the BeamResults r is out of the model's range.
Representable(r) ==
  \A x \in {r.rho, r.rhoMin, r.rhoMax, r.rhoBalanced, r.a, r.c, r.Mn, r.phiMn,
            r.phi, r.epsilonT, r.epsilonC} : ~IsOutOfRange(x)

\* As = getBarArea(barSize) * numBars, as the caller derives it, and the others.
AllSections ==
  {BeamInput(b, h, d, fc, fy, Mul(getBarArea(s), Int2Num(k)),
             Int2Num(k)) :
     b \in WidthValues, h \in HeightValues, d \in DepthValues, fc \in FcValues,
     fy \in FyValues, s \in DOMAIN barAreas, k \in 1..MaxBars}
  \cup
  {BeamInput(b, h, d, fc, fy, As, Int2Num(1)) :
     b \in WidthValues, h \in HeightValues, d \in DepthValues, fc \in FcValues,
     fy \in FyValues, As \in OtherAsValues}

Sections == {s \in AllSections : Representable(calculateBeamStrength(s))}

Init ==
  /\ fn = "calculateBeamStrength"
  /\ args \in {<<s>> : s \in Sections}
  /\ rets = <<>>
  /\ barSizes = <<>>
  /\ inputs = <<>>
  /\ results = <<>>

CallBeamStrength ==
  /\ fn = "calculateBeamStrength"
  /\ Len(rets) < Len(args)
  /\ rets' = Append(rets, calculateBeamStrength(args[Len(rets) + 1]))
  /\ UNCHANGED <<fn, args, barSizes, inputs, results>>

Next == CallBeamStrength

Spec == Init /\ [][Next]_vars

\* The input and the result of the call of calculateBeamStrength made.
Returned == Len(rets) = 1

input == args[1]

result == rets[1]

----------------------------------------------------------------------------
(* Two calls of calculateBeamStrength, on sections that differ in numBars only: *)
(* a section of k bars and the same with MaxBars + 1 - k bars.                 *)

InitBarCount ==
  /\ fn = "calculateBeamStrength"
  /\ args \in {<<s, [s EXCEPT !.numBars = Sub(Int2Num(MaxBars + 1), s.numBars)]>> :
                 s \in Sections}
  /\ args[1].numBars # args[2].numBars
  /\ rets = <<>>
  /\ barSizes = <<>>
  /\ inputs = <<>>
  /\ results = <<>>

NextBarCount == CallBeamStrength

SpecBarCount == InitBarCount /\ [][NextBarCount]_vars

----------------------------------------------------------------------------
(* Calls of calculatePhi: two calls, on any two strains. *)

\* The strains are the multiples of 0.00025 from -0.001 to EpsGridMax * 0.00025,
\* the two limits, the infinities and NaN.
EpsGridMax == 24

EpsValues ==
  {Rat(k, 4000) : k \in -4..EpsGridMax}
  \cup {Rat(2, 1000), Rat(5, 1000), PosInf, NegInf, NaN}

InitPhi ==
  /\ fn = "calculatePhi"
  /\ args \in {<<e1, e2>> : e1 \in EpsValues, e2 \in EpsValues}
  /\ rets = <<>>
  /\ barSizes = <<>>
  /\ inputs = <<>>
  /\ results = <<>>

CallPhi ==
  /\ fn = "calculatePhi"
  /\ Len(rets) < Len(args)
  /\ rets' = Append(rets, calculatePhi(args[Len(rets) + 1]))
  /\ UNCHANGED <<fn, args, barSizes, inputs, results>>

NextPhi == CallPhi

SpecPhi == InitPhi /\ [][NextPhi]_vars

----------------------------------------------------------------------------
(* Calls of calculateBeta1: two calls, on any two concrete strengths. *)

\* The strengths are the multiples of 250 psi up to FcGridMax * 250, the
\* neighbours of the two limits, a negative strength and +Infinity.
FcGridMax == 40

FcGridValues ==
  {Int2Num(250 * k) : k \in 0..FcGridMax}
  \cup {Int2Num(-1000), Int2Num(3999), Int2Num(4000), Int2Num(4001),
        Int2Num(7999), Int2Num(8000), Int2Num(8001), PosInf}

InitBeta1 ==
  /\ fn = "calculateBeta1"
  /\ args \in {<<fc1, fc2>> : fc1 \in FcGridValues, fc2 \in FcGridValues}
  /\ rets = <<>>
  /\ barSizes = <<>>
  /\ inputs = <<>>
  /\ results = <<>>

CallBeta1 ==
  /\ fn = "calculateBeta1"
  /\ Len(rets) < Len(args)
  /\ rets' = Append(rets, calculateBeta1(args[Len(rets) + 1]))
  /\ UNCHANGED <<fn, args, barSizes, inputs, results>>

NextBeta1 == CallBeta1

SpecBeta1 == InitBeta1 /\ [][NextBeta1]_vars

----------------------------------------------------------------------------
(* Calls of getBarArea (two, on any two sizes) and of getAvailableBarSizes. *)

\* The sizes asked for are -2..MaxBarSize and 99.
MaxBarSize == 20

BarSizeValues == (-2..MaxBarSize) \cup {99}

InitBars ==
  /\ fn = "getBarArea"
  /\ args \in {<<s1, s2>> : s1 \in BarSizeValues, s2 \in BarSizeValues}
  /\ rets = <<>>
  /\ barSizes = <<>>
  /\ inputs = <<>>
  /\ results = <<>>

CallGetBarArea ==
  /\ fn = "getBarArea"
  /\ Len(rets) < Len(args)
  /\ rets' = Append(rets, getBarArea(args[Len(rets) + 1]))
  /\ UNCHANGED <<fn, args, barSizes, inputs, results>>

CallGetAvailableBarSizes ==
  /\ fn = "getBarArea"
  /\ barSizes = <<>>
  /\ barSizes' = getAvailableBarSizes
  /\ UNCHANGED <<fn, args, rets, inputs, results>>

NextBars == CallGetBarArea \/ CallGetAvailableBarSizes

SpecBars == InitBars /\ [][NextBars]_vars

----------------------------------------------------------------------------
(* The App: the form is edited, one field at a time.  An edit is the whole  *)
(* chain onChange -> handleChange -> setInputs -> render -> useMemo.        *)

Digits == <<"0", "1", "2", "3", "4", "5", "6", "7", "8", "9">>

\* String(k) of an integer k >= 0: the value of an option, the text typed.
RECURSIVE NumberText(_)
NumberText(k) ==
  IF k < 10 THEN <<Digits[k + 1]>>
  ELSE Append(NumberText(k \div 10), Digits[(k % 10) + 1])

\* The largest bar count typed in the form.
MaxTypedBars == 2

\* The texts entered in the fields; <<>> is a cleared field.
WidthTexts == {<<>>, <<"0">>, <<"1", "2">>}

HeightTexts == {<<>>, <<"2", "4">>}

DepthTexts == {<<>>, <<"2", "1", ".", "5">>}

FcTexts == {<<>>, NumberText(3000), NumberText(4000)}

FyTexts == {<<>>, NumberText(60000)}

NumBarsTexts == {<<>>} \cup {NumberText(k) : k \in 0..MaxTypedBars}

InitApp ==
  /\ fn = "App"
  /\ args = <<>>
  /\ rets = <<>>
  /\ barSizes = getAvailableBarSizes
  /\ inputs = initialInputs
  /\ results = useMemoResults(initialInputs)

\* An edit: setInputs(handleChange(field, value)), then the render with its
\* useMemo.  The edits are those whose results are in the model's range.
ChangeB ==
  /\ fn = "App"
  /\ \E text \in WidthTexts :
       inputs' = handleChange(inputs, "b", OrElse(parseFloat(text), Int2Num(0)))
  /\ results' = useMemoResults(inputs')
  /\ Representable(results')
  /\ UNCHANGED <<fn, args, rets, barSizes>>

ChangeH ==
  /\ fn = "App"
  /\ \E text \in HeightTexts :
       inputs' = handleChange(inputs, "h", OrElse(parseFloat(text), Int2Num(0)))
  /\ results' = useMemoResults(inputs')
  /\ Representable(results')
  /\ UNCHANGED <<fn, args, rets, barSizes>>

ChangeD ==
  /\ fn = "App"
  /\ \E text \in DepthTexts :
       inputs' = handleChange(inputs, "d", OrElse(parseFloat(text), Int2Num(0)))
  /\ results' = useMemoResults(inputs')
  /\ Representable(results')
  /\ UNCHANGED <<fn, args, rets, barSizes>>

ChangeFc ==
  /\ fn = "App"
  /\ \E text \in FcTexts :
       inputs' = handleChange(inputs, "fc", OrElse(parseFloat(text), Int2Num(0)))
  /\ results' = useMemoResults(inputs')
  /\ Representable(results')
  /\ UNCHANGED <<fn, args, rets, barSizes>>

ChangeFy ==
  /\ fn = "App"
  /\ \E text \in FyTexts :
       inputs' = handleChange(inputs, "fy", OrElse(parseFloat(text), Int2Num(0)))
  /\ results' = useMemoResults(inputs')
  /\ Representable(results')
  /\ UNCHANGED <<fn, args, rets, barSizes>>

\* The options of the select are the sizes of getAvailableBarSizes.
ChangeBarSize ==
  /\ fn = "App"
  /\ \E i \in 1..Len(barSizes) :
       inputs' = handleChange(inputs, "barSize", parseInt(NumberText(barSizes[i])))
  /\ results' = useMemoResults(inputs')
  /\ Representable(results')
  /\ UNCHANGED <<fn, args, rets, barSizes>>

ChangeNumBars ==
  /\ fn = "App"
  /\ \E text \in NumBarsTexts :
       inputs' = handleChange(inputs, "numBars", OrElse(parseInt(text), Int2Num(1)))
  /\ results' = useMemoResults(inputs')
  /\ Representable(results')
  /\ UNCHANGED <<fn, args, rets, barSizes>>

NextApp ==
  \/ ChangeB
  \/ ChangeH
  \/ ChangeD
  \/ ChangeFc
  \/ ChangeFy
  \/ ChangeBarSize
  \/ ChangeNumBars

SpecApp == InitApp /\ [][NextApp]_vars

----------------------------------------------------------------------------
(* Properties of calculateBeamStrength *)

\* The section b=12, h=24, d=21.5, fc=4000, fy=60000 with steel area As.
Scenario(As, numBars) ==
  BeamInput(Int2Num(12), Int2Num(24), Rat(43, 2), Int2Num(4000), Int2Num(60000),
            As, Int2Num(numBars))

\* C1: for every input section the result has isUnderReinforced = (rho <= rhoMax),
\* meetsMinSteel = (rho >= rhoMin) and isValid = (isUnderReinforced and
\* meetsMinSteel and d < h and As > 0), where rho = As / (b * d); so isValid is
\* false when rho is outside [rhoMin, rhoMax], when d >= h and when As <= 0, and
\* the section with As = 0.10 has meetsMinSteel = false and isValid = false.
C1_ValidityChecks ==
  Returned =>
    LET rho == Div(input.As, Mul(input.b, input.d))
    IN  /\ result.rho = rho
        /\ result.isUnderReinforced <=> Le(rho, result.rhoMax)
        /\ result.meetsMinSteel <=> Ge(rho, result.rhoMin)
        /\ result.isValid <=>
             /\ result.isUnderReinforced
             /\ result.meetsMinSteel
             /\ Lt(input.d, input.h)
             /\ Gt(input.As, Int2Num(0))
        /\ Lt(rho, result.rhoMin) \/ Gt(rho, result.rhoMax) => ~result.isValid
        /\ Ge(input.d, input.h) => ~result.isValid
        /\ Le(input.As, Int2Num(0)) => ~result.isValid
        /\ input = Scenario(Rat(10, 100), 1) =>
             ~result.meetsMinSteel /\ ~result.isValid

\* The section with As = 0.10 has been evaluated and fails the minimum steel.
C1_Witness ==
  /\ Returned
  /\ input = Scenario(Rat(10, 100), 1)
  /\ ~result.meetsMinSteel
  /\ result.isUnderReinforced
  /\ ~result.isValid

\* C2: for b=12, h=24, d=21.5, fc=4000, fy=60000, As=3.16 the result has a about
\* 3.10 in (within 0.05), phi = 0.90 with epsilonT above 0.005, phiMn between 280
\* and 300 (a value in kip-ft) and isValid = true.
C2_Scenario1 ==
  Returned /\ input = Scenario(Rat(316, 100), 4) =>
    /\ Ge(result.a, Rat(305, 100)) /\ Le(result.a, Rat(315, 100))
    /\ result.phi = Rat(9, 10)
    /\ Gt(result.epsilonT, Rat(5, 1000))
    /\ Ge(result.phiMn, Int2Num(280)) /\ Le(result.phiMn, Int2Num(300))
    /\ result.isValid

\* b, d, fc, fy and As of the section s are all positive.
AllPositive(s) ==
  /\ Gt(s.b, Int2Num(0))
  /\ Gt(s.d, Int2Num(0))
  /\ Gt(s.fc, Int2Num(0))
  /\ Gt(s.fy, Int2Num(0))
  /\ Gt(s.As, Int2Num(0))

\* C6, as claimed: when b, d, fc, fy and As are positive and the result has
\* isUnderReinforced = true, epsilonT is above 0.002 and phi above 0.65.
C6_UnderReinforcedNeverCompression ==
  Returned /\ AllPositive(input) /\ result.isUnderReinforced =>
    Gt(result.epsilonT, Rat(2, 1000)) /\ Gt(result.phi, Rat(65, 100))

\* C6, amended: the same when moreover fy > 21750 psi, the yield strength at
\* which the strain 0.001 + (4/3) * fy / 29000000 of a section at rhoMax is 0.002.
C6_UnderReinforcedAbove21750 ==
  Returned /\ AllPositive(input) /\ Gt(input.fy, Int2Num(21750))
    /\ result.isUnderReinforced =>
    Gt(result.epsilonT, Rat(2, 1000)) /\ Gt(result.phi, Rat(65, 100))

\* An under-reinforced section of 22000 psi steel close to rhoMax was evaluated:
\* its strain is above 0.002 by less than 0.0001.
C6_Witness ==
  /\ Returned
  /\ AllPositive(input)
  /\ input.fy = Int2Num(22000)
  /\ result.isUnderReinforced
  /\ Gt(result.epsilonT, Rat(2, 1000))
  /\ Lt(result.epsilonT, Rat(21, 10000))
  /\ Gt(result.phi, Rat(65, 100))

\* C7: in every result for positive fc and fy, rhoMax is 0.75 times rhoBalanced,
\* so rhoMax < rhoBalanced.
C7_RhoMaxOfBalanced ==
  Returned /\ Gt(input.fc, Int2Num(0)) /\ Gt(input.fy, Int2Num(0)) =>
    /\ result.rhoMax = Mul(Rat(75, 100), result.rhoBalanced)
    /\ Lt(result.rhoMax, result.rhoBalanced)

\* The section of four #8 bars was evaluated: rhoBalanced 0.0285, rhoMax 0.0214.
C7_Witness ==
  /\ Returned
  /\ input = Scenario(Rat(316, 100), 4)
  /\ result.rhoBalanced = Rat(8381, 294000)
  /\ result.rhoMax = Rat(8381, 392000)

\* C8: in every result for positive b, fc, fy and As >= 0, the forces balance,
\* a * 0.85 * fc * b = As * fy, and c * beta1(fc) = a (as exact values).
C8_ForceEquilibrium ==
  Returned /\ Gt(input.b, Int2Num(0)) /\ Gt(input.fc, Int2Num(0))
    /\ Gt(input.fy, Int2Num(0)) /\ Ge(input.As, Int2Num(0)) =>
    /\ Mul(Mul(Mul(result.a, Rat(85, 100)), input.fc), input.b)
         = Mul(input.As, input.fy)
    /\ Mul(result.c, calculateBeta1(input.fc)) = result.a

\* The section of four #8 bars was evaluated: a = 79/17 in balances 189600 lb.
C8_Witness ==
  /\ Returned
  /\ input = Scenario(Rat(316, 100), 4)
  /\ result.a = Rat(79, 17)
  /\ Mul(Mul(Mul(result.a, Rat(85, 100)), input.fc), input.b) = Int2Num(189600)

\* C9: a section (b, d, fc, fy, As positive) whose neutral axis is at or below
\* the steel, c >= d, has epsilonT <= 0, isUnderReinforced = false, isValid =
\* false and phi = 0.65; b=12, h=24, d=21.5, fc=4000, fy=60000, As=20 is one.
C9_OverReinforced ==
  /\ Returned /\ AllPositive(input) /\ Ge(result.c, input.d) =>
       /\ Le(result.epsilonT, Int2Num(0))
       /\ ~result.isUnderReinforced
       /\ ~result.isValid
       /\ result.phi = Rat(65, 100)
  /\ Returned /\ input = Scenario(Int2Num(20), 1) => Ge(result.c, input.d)

\* The section with As = 20 was evaluated: c = 34.6 in, below the steel.
C9_Witness ==
  /\ Returned
  /\ input = Scenario(Int2Num(20), 1)
  /\ result.c = Rat(10000, 289)
  /\ Lt(result.epsilonT, Int2Num(0))
  /\ result.phi = Rat(65, 100)
  /\ ~result.isUnderReinforced
  /\ ~result.isValid

\* C15, as claimed: when b, d, fc, fy and As are positive and the result has
\* isUnderReinforced = false (rho > rhoMax), phi is below 0.90 and epsilonT
\* below 0.005: an over-reinforced section never gets the full factor.
C15_OverReinforcedBelowFullPhi ==
  Returned /\ AllPositive(input) /\ ~result.isUnderReinforced =>
    Lt(result.phi, Rat(9, 10)) /\ Lt(result.epsilonT, Rat(5, 1000))

\* C15, amended: the same when moreover fy <= 87000 psi, the yield strength at
\* which the strain 0.001 + (4/3) * fy / 29000000 of a section at rhoMax is 0.005.
C15_OverReinforcedUpTo87000 ==
  Returned /\ AllPositive(input) /\ Le(input.fy, Int2Num(87000))
    /\ ~result.isUnderReinforced =>
    Lt(result.phi, Rat(9, 10)) /\ Lt(result.epsilonT, Rat(5, 1000))

\* A section of 87000 psi steel with As = 3.24 was evaluated: rho is above rhoMax
\* by less than 1%, and the strain below 0.005 by less than 0.0001.
C15_Witness ==
  /\ Returned
  /\ input = BeamInput(Int2Num(12), Int2Num(24), Rat(43, 2), Int2Num(4000),
                       Int2Num(87000), Rat(324, 100), Int2Num(1))
  /\ ~result.isUnderReinforced
  /\ Lt(result.rho, Mul(Rat(101, 100), result.rhoMax))
  /\ Gt(result.epsilonT, Rat(49, 10000))
  /\ Lt(result.epsilonT, Rat(5, 1000))
  /\ Lt(result.phi, Rat(9, 10))

----------------------------------------------------------------------------
(* Properties of two calls of calculateBeamStrength (under SpecBarCount) *)

\* The section s without its bar count.
WithoutNumBars(s) == [f \in DOMAIN s \ {"numBars"} |-> s[f]]

\* C11: the bar count takes no part in the formulas: two calls on sections that
\* agree on b, h, d, fc, fy and As and differ in numBars return results that are
\* identical in all 14 fields.
C11_BarCountIgnored ==
  /\ fn = "calculateBeamStrength"
  /\ Len(args) = 2
  /\ Len(rets) = 2
  /\ WithoutNumBars(args[1]) = WithoutNumBars(args[2])
  /\ args[1].numBars # args[2].numBars
  => /\ Cardinality(DOMAIN rets[1]) = 14
     /\ DOMAIN rets[2] = DOMAIN rets[1]
     /\ \A f \in DOMAIN rets[1] : rets[1][f] = rets[2][f]

\* As = 4.00 was evaluated as one #18 bar and as four bars (#9): same results.
C11_Witness ==
  /\ fn = "calculateBeamStrength"
  /\ args = <<Scenario(Int2Num(4), 1), Scenario(Int2Num(4), 4)>>
  /\ Len(rets) = 2
  /\ rets[1] = rets[2]
  /\ rets[2].rho = Rat(2, 129)

----------------------------------------------------------------------------
(* Properties of the App (under SpecApp) *)

\* The numbers of the BeamResults r.
NumbersOf(r) ==
  {r.rho, r.rhoMin, r.rhoMax, r.rhoBalanced, r.a, r.c, r.Mn, r.phiMn, r.phi,
   r.epsilonT, r.epsilonC}

\* C13: after any edits of the form, calculateBeamStrength has not been invoked
\* with b = 0, d = 0, fc = 0 or fy = 0: the results displayed are those of inputs
\* with b, d, fc and fy other than 0, all their numbers are finite and phi is in
\* [0.65, 0.90].
C13_NoZeroReachesEngine ==
  fn = "App" =>
    /\ engineInput(inputs).b # Int2Num(0)
    /\ engineInput(inputs).d # Int2Num(0)
    /\ engineInput(inputs).fc # Int2Num(0)
    /\ engineInput(inputs).fy # Int2Num(0)
    /\ \A x \in NumbersOf(results) : IsFinite(x)
    /\ Ge(results.phi, Rat(65, 100)) /\ Le(results.phi, Rat(90, 100))

\* C14: after any edits of the form, the results shown are those of the current
\* inputs, calculateBeamStrength of the current b, h, d, fc, fy with As =
\* getBarArea(barSize) * numBars for the current barSize and numBars, and never
\* those of earlier inputs; and an edit changes one field of the inputs, the
\* other six keeping their values.
C14_ResultsOfCurrentInputs ==
  /\ [](fn = "App" =>
         results =
           calculateBeamStrength(
             BeamInput(inputs.b, inputs.h, inputs.d, inputs.fc, inputs.fy,
                       Mul(getBarArea(PropertyKey(inputs.barSize)), inputs.numBars),
                       inputs.numBars)))
  /\ [][fn = "App" =>
          \E f \in DOMAIN inputs :
            \A g \in DOMAIN inputs \ {f} : inputs'[g] = inputs[g]]_vars

\* Four fields were edited (fc, d, the bar size and the count) and the results
\* are those of two #9 bars, no longer those of the inputs at mount.
C14_Witness ==
  /\ fn = "App"
  /\ inputs = [initialInputs EXCEPT !.fc = Int2Num(3000), !.d = Int2Num(0),
                                    !.barSize = Int2Num(9), !.numBars = Int2Num(2)]
  /\ results # useMemoResults(initialInputs)
  /\ results.a = Rat(200, 51)
  /\ results.rho = PosInf

----------------------------------------------------------------------------
(* Properties of calculatePhi (under SpecPhi) *)

\* The calls of the function under call made so far.
Calls == 1..Len(rets)

\* The interpolation rule of the transition zone, as the claim writes it.
TransitionPhi(e) ==
  Add(Rat(65, 100),
      Mul(Div(Sub(e, Rat(2, 1000)), Sub(Rat(5, 1000), Rat(2, 1000))),
          Sub(Rat(90, 100), Rat(65, 100))))

\* C3: calculatePhi returns 0.90 for every epsilonT >= 0.005 (0.005 included), 0.65
\* for every epsilonT <= 0.002 (0.002, zero and negative strains included) and
\* 0.65 + (epsilonT - 0.002) / (0.005 - 0.002) * (0.90 - 0.65) in between; hence
\* the phi of every strain that is a number (not NaN) lies in [0.65, 0.90].
C3_PhiThreeBranches ==
  fn = "calculatePhi" =>
    \A i \in Calls :
      /\ Ge(args[i], Rat(5, 1000)) => rets[i] = Rat(90, 100)
      /\ Le(args[i], Rat(2, 1000)) => rets[i] = Rat(65, 100)
      /\ Gt(args[i], Rat(2, 1000)) /\ Lt(args[i], Rat(5, 1000)) =>
           rets[i] = TransitionPhi(args[i])
      /\ ~IsNaN(args[i]) => Ge(rets[i], Rat(65, 100)) /\ Le(rets[i], Rat(90, 100))

\* calculatePhi was called at both limits and in the transition zone.
C3_Witness ==
  /\ fn = "calculatePhi"
  /\ args = <<Rat(5, 1000), Rat(35, 10000)>>
  /\ rets = <<Rat(90, 100), Rat(775, 1000)>>

\* C4: phi is non-decreasing in epsilonT, and has no jump: between two finite
\* strains e1 <= e2 it rises by at most (0.25 / 0.003) * (e2 - e1), so the
\* interpolation tends to 0.65 as epsilonT falls to 0.002 and to 0.90 as it
\* rises to 0.005.
C4_PhiMonotoneNoJump ==
  fn = "calculatePhi" /\ Len(rets) = 2 /\ Le(args[1], args[2]) =>
    /\ Le(rets[1], rets[2])
    /\ IsFinite(args[1]) /\ IsFinite(args[2]) =>
         Le(Sub(rets[2], rets[1]), Mul(Rat(250, 3), Sub(args[2], args[1])))

\* Two calls on either side of and next to the limit 0.002: phi rises, by little.
C4_Witness ==
  /\ fn = "calculatePhi"
  /\ args = <<Rat(2, 1000), Rat(9, 4000)>>
  /\ Len(rets) = 2
  /\ Lt(rets[1], rets[2])
  /\ Le(Sub(rets[2], rets[1]), Rat(21, 1000))

----------------------------------------------------------------------------
(* Properties of calculateBeta1 (under SpecBeta1) *)

\* C5: calculateBeta1 returns 0.85 for every fc <= 4000 (4000 included), 0.65 for
\* every fc >= 8000 (8000 included) and 0.85 - ((fc - 4000) / 4000) * 0.20 in
\* between; it is strictly decreasing on (4000, 8000) and lies in [0.65, 0.85].
C5_Beta1 ==
  fn = "calculateBeta1" =>
    /\ \A i \in Calls :
         /\ Le(args[i], Int2Num(4000)) => rets[i] = Rat(85, 100)
         /\ Ge(args[i], Int2Num(8000)) => rets[i] = Rat(65, 100)
         /\ Gt(args[i], Int2Num(4000)) /\ Lt(args[i], Int2Num(8000)) =>
              rets[i] = Sub(Rat(85, 100),
                            Mul(Div(Sub(args[i], Int2Num(4000)), Int2Num(4000)),
                                Rat(20, 100)))
         /\ Ge(rets[i], Rat(65, 100)) /\ Le(rets[i], Rat(85, 100))
    /\ Len(rets) = 2 /\ Gt(args[1], Int2Num(4000)) /\ Lt(args[1], args[2])
         /\ Lt(args[2], Int2Num(8000)) => Gt(rets[1], rets[2])

\* calculateBeta1 was called just inside both ends of the interpolation.
C5_Witness ==
  /\ fn = "calculateBeta1"
  /\ args = <<Int2Num(4001), Int2Num(7999)>>
  /\ Len(rets) = 2
  /\ Lt(rets[1], Rat(85, 100))
  /\ Gt(rets[1], rets[2])
  /\ Gt(rets[2], Rat(65, 100))

----------------------------------------------------------------------------
(* Properties of getBarArea and getAvailableBarSizes (under SpecBars) *)

\* The areas of the standard bars, in hundredths of a square inch.
StandardBarAreas ==
  [s \in {3, 4, 5, 6, 7, 8, 9, 10, 11, 14, 18} |->
     CASE s = 3 -> 11 [] s = 4 -> 20 [] s = 5 -> 31 [] s = 6 -> 44 [] s = 7 -> 60
       [] s = 8 -> 79 [] s = 9 -> 100 [] s = 10 -> 127 [] s = 11 -> 156
       [] s = 14 -> 225 [] s = 18 -> 400]

\* C10: getBarArea returns the fixed area of each of the 11 standard sizes and 0,
\* a number, for every other size; getAvailableBarSizes returns exactly those 11
\* sizes in strictly ascending order, each with a positive area in getBarArea.
C10_BarTable ==
  fn = "getBarArea" =>
    /\ \A i \in Calls :
         /\ args[i] \in DOMAIN StandardBarAreas =>
              rets[i] = Rat(StandardBarAreas[args[i]], 100)
         /\ args[i] \notin DOMAIN StandardBarAreas => rets[i] = Int2Num(0)
    /\ barSizes # <<>> =>
         /\ Len(barSizes) = 11
         /\ {barSizes[j] : j \in 1..Len(barSizes)} = DOMAIN StandardBarAreas
         /\ \A j \in 1..(Len(barSizes) - 1) : barSizes[j] < barSizes[j + 1]
         /\ \A j \in 1..Len(barSizes) : Gt(getBarArea(barSizes[j]), Int2Num(0))
         /\ \A i \in Calls :
              Gt(rets[i], Int2Num(0)) <=> \E j \in 1..Len(barSizes) : barSizes[j] = args[i]

\* The sizes were listed, and the areas of #8 and of the unknown #99 asked for.
C10_Witness ==
  /\ fn = "getBarArea"
  /\ barSizes = <<3, 4, 5, 6, 7, 8, 9, 10, 11, 14, 18>>
  /\ args = <<8, 99>>
  /\ rets = <<Rat(79, 100), Int2Num(0)>>

====
